---- MODULE Spec2Model ----
(***************************************************************************)
(* A model of the Fornjot kernel's sweep algorithm (fj-kernel              *)
(* algorithms/sweep.rs), of the swept-curve surface mappings               *)
(* (geometry/surfaces/swept.rs), of face equality (topology/faces.rs) and  *)
(* of the shape store the sweep populates, and of the viewer's input       *)
(* handler (src/input.rs).                                                 *)
(*                                                                         *)
(* Coordinates are integers and the arithmetic is exact; a quotient is     *)
(* kept as a pair <<numerator, denominator>>.                              *)
(***************************************************************************)
EXTENDS Integers, Sequences, FiniteSets, TLC

VARIABLES
    source,                 \* the shape handed to sweep_shape
    path,                   \* the sweep path
    tolerance,              \* the tolerance handed to approximate_cycle
    color,                  \* the caller-supplied color
    target,                 \* the shape sweep_shape builds
    source_to_bottom,       \* Relation: source handle -> bottom handle
    source_to_top,          \* Relation: source handle -> top handle
    vertex_bottom_to_edge,  \* the side-edge cache of the current cycle
    pc,                     \* the loop sweep_shape is in
    i,                      \* position in that loop (1-based)
    j,                      \* position in the edges of cycle i (side faces)
    err,                    \* why sweep_shape panicked, "none" if it did not
    side_faces,             \* history: the side faces inserted so far
    side_edges,             \* history: the side edges inserted so far
    mesh_faces,             \* history: the Triangles faces inserted so far
    cmp,                    \* the last comparison of two faces
    stores,                 \* shape store: two shapes, A and B
    last,                   \* shape store: the outcome of the last insertion
    inserts,                \* shape store: the insertions made so far
    surf,                   \* surface mapping: the surface
    surface_point,          \* surface mapping: a point in surface coordinates
    model_point,            \* surface mapping: surface_point in model coordinates
    back,                   \* surface mapping: model_point in surface coordinates
    model_vector,           \* surface mapping: surface_point mapped as a vector
    xform,                  \* surface mapping: a rigid transform
    transformed,            \* surface mapping: the transformed surface
    rotating,               \* InputHandler: whether the model is being rotated
    cursor,                 \* InputHandler: the last cursor position, if any
    angle_x,                \* Transform: the rotation about the x axis
    angle_z,                \* Transform: the rotation about the z axis
    last_left,              \* history: the state of the last left-button event
    event                   \* history: the last event and the state it met

sweepVars == <<source, path, tolerance, color, target, source_to_bottom,
               source_to_top, vertex_bottom_to_edge, pc, i, j, err,
               side_faces, side_edges, mesh_faces, cmp>>
storeVars == <<stores, last, inserts>>
surfaceVars == <<surf, surface_point, model_point, back, model_vector,
                 xform, transformed>>
inputVars == <<rotating, cursor, angle_x, angle_z, last_left, event>>
vars == <<sweepVars, storeVars, surfaceVars, inputVars>>

\* What the sweep leaves alone, and what the other operations do.
notSweep == <<storeVars, surfaceVars, inputVars>>
notStore == <<sweepVars, surfaceVars, inputVars>>
notSurface == <<sweepVars, storeVars, inputVars>>
notInput == <<sweepVars, storeVars, surfaceVars>>

-----------------------------------------------------------------------------
(* Bounds of the model *)

\* Sweep paths (0,0,h) have 0 <= h <= MaxH.
MaxH == 2
\* Polygons of the source shapes have 2..MaxN edges.
MaxN == 4
\* Tolerances are 0..MaxTol.
MaxTol == 2

-----------------------------------------------------------------------------
(* fj_math: vectors, points, transforms *)

VAdd(a, b) == <<a[1] + b[1], a[2] + b[2], a[3] + b[3]>>
VSub(a, b) == <<a[1] - b[1], a[2] - b[2], a[3] - b[3]>>
VScale(a, k) == <<a[1] * k, a[2] * k, a[3] * k>>
Dot(a, b) == a[1] * b[1] + a[2] * b[2] + a[3] * b[3]

Identity == <<<<1, 0, 0>>, <<0, 1, 0>>, <<0, 0, 1>>>>

\* Transform::translation
Translation(v) == [m |-> Identity, t |-> v]

\* Transform::transform_vector: the linear part only
TransformVector(T, v) == <<Dot(T.m[1], v), Dot(T.m[2], v), Dot(T.m[3], v)>>

\* Transform::transform_point: the linear part, then the translation
TransformPoint(T, p) == VAdd(TransformVector(T, p), T.t)

-----------------------------------------------------------------------------
(* geometry: curves and surfaces *)

\* Line { origin, direction }
Line(origin, direction) ==
    [kind |-> "Line", origin |-> origin, direction |-> direction]

\* Line::from_points
LineFromPoints(a, b) == Line(a, VSub(b, a))

\* A circle: origin is its center, direction its radius vector.
Circle(center, radius) ==
    [kind |-> "Circle", origin |-> center, direction |-> radius]

\* Curve::transform
CurveTransform(c, T) ==
    [c EXCEPT !.origin = TransformPoint(T, @),
              !.direction = TransformVector(T, @)]

\* SweptCurve { curve, path }
SweptCurve(curve, p) == [curve |-> curve, path |-> p]

\* SweptCurve::plane_from_points
plane_from_points(a, b, c) == SweptCurve(LineFromPoints(a, b), VSub(c, a))

\* Surface::x_y_plane
x_y_plane == SweptCurve(Line(<<0, 0, 0>>, <<1, 0, 0>>), <<0, 1, 0>>)

\* A transform that forgets the curve and turns only the path.
SurfaceTransformPathOnly(s, T) ==
    [curve |-> s.curve, path |-> TransformVector(T, s.path)]

\* A transform that moves the path as if it were a point.
SurfaceTransformPathAsPoint(s, T) ==
    [curve |-> CurveTransform(s.curve, T), path |-> TransformPoint(T, s.path)]

\* SweptCurve::transform / Surface::transform
SurfaceTransform(s, T) ==
    [curve |-> CurveTransform(s.curve, T), path |-> TransformVector(T, s.path)]

-----------------------------------------------------------------------------
(* shape: the store and its handles *)

\* A handle names the store that issued it and the slot it refers to.
Handle(id, ix) == [sh |-> id, ix |-> ix]

\* Shape::new
NewShape(id) ==
    [id |-> id, points |-> <<>>, curves |-> <<>>, surfaces |-> <<>>,
     vertices |-> <<>>, edges |-> <<>>, cycles |-> <<>>, faces |-> <<>>]

\* Whether store s issued handle h for one of its first n slots of a kind.
Issued(s, h, n) == h.sh = s.id /\ h.ix \in 1..n

Ok(s, ix) == [ok |-> TRUE, shape |-> s, handle |-> Handle(s.id, ix)]
Rejected(s) == [ok |-> FALSE, shape |-> s, handle |-> Handle(s.id, 0)]

\* Geometry::add_point, add_curve, add_surface: values, nothing to validate
add_point(s, p) ==
    Ok([s EXCEPT !.points = Append(@, p)], Len(s.points) + 1)
add_curve(s, c) ==
    Ok([s EXCEPT !.curves = Append(@, c)], Len(s.curves) + 1)
add_surface(s, f) ==
    Ok([s EXCEPT !.surfaces = Append(@, f)], Len(s.surfaces) + 1)

\* A validation of edges that looks at the curve only.
EdgeValidCurveOnly(s, e) == Issued(s, e.curve, Len(s.curves))

\* A cycle checked for the ownership of its handles only.
CycleValidHandlesOnly(s, c) ==
    \A k \in 1..Len(c.edges) : Issued(s, c.edges[k], Len(s.edges))

\* What each insertion validates: every embedded handle is this store's,
\* and a cycle is no structurally invalid combination: an edge without
\* vertices is the only edge of its cycle.
VertexValid(s, v) == Issued(s, v.point, Len(s.points))
EdgeValid(s, e) ==
    /\ Issued(s, e.curve, Len(s.curves))
    /\ \A k \in 1..Len(e.vertices) : Issued(s, e.vertices[k], Len(s.vertices))
CycleValid(s, c) ==
    \A k \in 1..Len(c.edges) :
        /\ Issued(s, c.edges[k], Len(s.edges))
        /\ s.edges[c.edges[k].ix].vertices = <<>> => Len(c.edges) = 1
FaceValid(s, f) ==
    f.kind = "Face" =>
        /\ Issued(s, f.surface, Len(s.surfaces))
        /\ \A k \in 1..Len(f.cycles) : Issued(s, f.cycles[k], Len(s.cycles))

\* Topology::add_vertex, add_edge, add_cycle, add_face
add_vertex(s, v) ==
    IF VertexValid(s, v)
    THEN Ok([s EXCEPT !.vertices = Append(@, v)], Len(s.vertices) + 1)
    ELSE Rejected(s)
add_edge(s, e) ==
    IF EdgeValid(s, e)
    THEN Ok([s EXCEPT !.edges = Append(@, e)], Len(s.edges) + 1)
    ELSE Rejected(s)
add_cycle(s, c) ==
    IF CycleValid(s, c)
    THEN Ok([s EXCEPT !.cycles = Append(@, c)], Len(s.cycles) + 1)
    ELSE Rejected(s)
add_face(s, f) ==
    IF FaceValid(s, f)
    THEN Ok([s EXCEPT !.faces = Append(@, f)], Len(s.faces) + 1)
    ELSE Rejected(s)

\* Topology::add_line_segment: an edge on the line through two vertices
add_line_segment(s, a, b) ==
    LET c == add_curve(s, LineFromPoints(s.points[s.vertices[a.ix].point.ix],
                                         s.points[s.vertices[b.ix].point.ix]))
    IN  add_edge(c.shape, [curve |-> c.handle, vertices |-> <<a, b>>])

\* Vertex, Edge, Cycle, Face values.  An edge's vertices are <<>> (None, a
\* continuous edge) or <<a, b>>.
Vertex(point) == [point |-> point]
Edge(curve, vertices) == [curve |-> curve, vertices |-> vertices]
Cycle(edges) == [edges |-> edges]
FaceFace(surface, cycles, col) ==
    [kind |-> "Face", surface |-> surface, cycles |-> cycles, color |-> col]
FaceTriangles(triangles) == [kind |-> "Triangles", triangles |-> triangles]

\* Vertex::point, Edge::curve: the values behind the handles
VertexPoint(s, h) == s.points[s.vertices[h.ix].point.ix]
EdgeCurve(s, h) == s.curves[s.edges[h.ix].curve.ix]

-----------------------------------------------------------------------------
(* algorithms::approximation *)

\* The sample points of a circle of radius 5, as offsets from its center:
\* the 4 axis points for a coarse tolerance, all 12 lattice points of the
\* circle for a fine one.
CircleOffsets(tol) ==
    IF tol >= 2
    THEN << <<5, 0, 0>>, <<0, 5, 0>>, <<-5, 0, 0>>, <<0, -5, 0>> >>
    ELSE << <<5, 0, 0>>, <<4, 3, 0>>, <<3, 4, 0>>, <<0, 5, 0>>,
            <<-3, 4, 0>>, <<-4, 3, 0>>, <<-5, 0, 0>>, <<-4, -3, 0>>,
            <<-3, -4, 0>>, <<0, -5, 0>>, <<3, -4, 0>>, <<4, -3, 0>> >>

\* The points of one edge: its vertices if it has any, around the samples
\* of its curve (a line has none of its own).
approximate_edge(s, e, tol) ==
    LET c == s.curves[e.curve.ix]
        samples == IF c.kind = "Circle"
                   THEN [k \in 1..Len(CircleOffsets(tol)) |->
                            VAdd(c.origin, CircleOffsets(tol)[k])]
                   ELSE <<>>
    IN  IF e.vertices = <<>>
        THEN samples
        ELSE <<s.points[s.vertices[e.vertices[1].ix].point.ix]>> \o samples
             \o <<s.points[s.vertices[e.vertices[2].ix].point.ix]>>

RECURSIVE EdgePoints(_, _, _, _)
EdgePoints(s, edges, tol, k) ==
    IF k > Len(edges) THEN <<>>
    ELSE approximate_edge(s, s.edges[edges[k].ix], tol)
         \o EdgePoints(s, edges, tol, k + 1)

RECURSIVE Dedup(_)
Dedup(ps) ==
    IF Len(ps) <= 1 THEN ps
    ELSE IF ps[1] = ps[2] THEN Dedup(Tail(ps))
    ELSE <<ps[1]>> \o Dedup(Tail(ps))

\* approximate_cycle: the polyline of the cycle's edges, closed (the first
\* point is repeated at the end).
approximate_cycle(s, c, tol) ==
    LET ps == Dedup(EdgePoints(s, c.edges, tol, 1))
    IN  IF ps = <<>> \/ ps[1] = ps[Len(ps)] THEN ps ELSE Append(ps, ps[1])

-----------------------------------------------------------------------------
(* The source shapes *)

Red == <<255, 0, 0, 255>>
Blue == <<0, 0, 255, 255>>
Colors == {Red, Blue}

\* tests::Triangle::new: the sketch of the sweep test
TriangleShape(a, b, c) ==
    LET pa == add_point(NewShape("S"), a)
        pb == add_point(pa.shape, b)
        pc3 == add_point(pb.shape, c)
        va == add_vertex(pc3.shape, Vertex(pa.handle))
        vb == add_vertex(va.shape, Vertex(pb.handle))
        vc == add_vertex(vb.shape, Vertex(pc3.handle))
        ab == add_line_segment(vc.shape, va.handle, vb.handle)
        bc == add_line_segment(ab.shape, vb.handle, vc.handle)
        ca == add_line_segment(bc.shape, vc.handle, va.handle)
        cycles == add_cycle(ca.shape,
                            Cycle(<<ab.handle, bc.handle, ca.handle>>))
        surface == add_surface(cycles.shape, plane_from_points(a, b, c))
        abc == FaceFace(surface.handle, <<cycles.handle>>, Red)
    IN  add_face(surface.shape, abc).shape

\* A polygon with n edges: vertex k at (k, k*k, 0), edge k from vertex k to
\* vertex k+1 (the last one back to the first), one cycle, one face.
PolyPoint(k) == <<k, k * k, 0>>
PolygonShape(n) ==
    [id |-> "S",
     points |-> [k \in 1..n |-> PolyPoint(k - 1)],
     vertices |-> [k \in 1..n |-> Vertex(Handle("S", k))],
     curves |-> [k \in 1..n |-> LineFromPoints(PolyPoint(k - 1), PolyPoint(k % n))],
     edges |-> [k \in 1..n |->
                  Edge(Handle("S", k), <<Handle("S", k), Handle("S", (k % n) + 1)>>)],
     cycles |-> <<Cycle([k \in 1..n |-> Handle("S", k)])>>,
     surfaces |-> <<x_y_plane>>,
     faces |-> <<FaceFace(Handle("S", 1), <<Handle("S", 1)>>, Red)>>]

\* Two triangles abc and cad of a square, sharing the edge ca and so the
\* vertices c and a: two cycles, two faces.
TwoTriangles ==
    LET a == <<0, 0, 0>>
        b == <<1, 0, 0>>
        c == <<1, 1, 0>>
        d == <<0, 1, 0>>
        H(k) == Handle("S", k)
    IN  [id |-> "S",
         points |-> <<a, b, c, d>>,
         vertices |-> <<Vertex(H(1)), Vertex(H(2)), Vertex(H(3)), Vertex(H(4))>>,
         curves |-> <<LineFromPoints(a, b), LineFromPoints(b, c),
                      LineFromPoints(c, a), LineFromPoints(a, d),
                      LineFromPoints(d, c)>>,
         edges |-> <<Edge(H(1), <<H(1), H(2)>>), Edge(H(2), <<H(2), H(3)>>),
                     Edge(H(3), <<H(3), H(1)>>), Edge(H(4), <<H(1), H(4)>>),
                     Edge(H(5), <<H(4), H(3)>>)>>,
         cycles |-> <<Cycle(<<H(1), H(2), H(3)>>), Cycle(<<H(3), H(4), H(5)>>)>>,
         surfaces |-> <<plane_from_points(a, b, c), plane_from_points(c, a, d)>>,
         faces |-> <<FaceFace(H(1), <<H(1)>>, Red), FaceFace(H(2), <<H(2)>>, Red)>>]

\* A disk: one continuous edge (a circle, no vertices), one cycle, one face.
CircleShape ==
    [id |-> "S",
     points |-> <<>>,
     vertices |-> <<>>,
     curves |-> <<Circle(<<0, 0, 0>>, <<5, 0, 0>>)>>,
     edges |-> <<Edge(Handle("S", 1), <<>>)>>,
     cycles |-> <<Cycle(<<Handle("S", 1)>>)>>,
     surfaces |-> <<x_y_plane>>,
     faces |-> <<FaceFace(Handle("S", 1), <<Handle("S", 1)>>, Red)>>]

\* A cycle whose single edge is a line segment with two vertices, in the
\* store named id.
SegmentShape(id) ==
    LET a == <<0, 0, 0>>
        b == <<1, 0, 0>>
        H(k) == Handle(id, k)
    IN  [id |-> id,
         points |-> <<a, b>>,
         vertices |-> <<Vertex(H(1)), Vertex(H(2))>>,
         curves |-> <<LineFromPoints(a, b)>>,
         edges |-> <<Edge(H(1), <<H(1), H(2)>>)>>,
         cycles |-> <<Cycle(<<H(1)>>)>>,
         surfaces |-> <<x_y_plane>>,
         faces |-> <<FaceFace(H(1), <<H(1)>>, Red)>>]

SingleEdgeShape == SegmentShape("S")

\* A triangle with a triangular hole: two cycles of three edges each, and
\* one face bounded by both.
HoleShape ==
    LET ps == <<<<0, 0, 0>>, <<4, 0, 0>>, <<0, 4, 0>>,
                <<1, 1, 0>>, <<2, 1, 0>>, <<1, 2, 0>>>>
        H(k) == Handle("S", k)
        \* the vertex after vertex k in its triangle
        After(k) == IF k % 3 = 0 THEN k - 2 ELSE k + 1
    IN  [id |-> "S",
         points |-> ps,
         vertices |-> [k \in 1..6 |-> Vertex(H(k))],
         curves |-> [k \in 1..6 |-> LineFromPoints(ps[k], ps[After(k)])],
         edges |-> [k \in 1..6 |-> Edge(H(k), <<H(k), H(After(k))>>)],
         cycles |-> <<Cycle(<<H(1), H(2), H(3)>>), Cycle(<<H(4), H(5), H(6)>>)>>,
         surfaces |-> <<x_y_plane>>,
         faces |-> <<FaceFace(H(1), <<H(1), H(2)>>, Red)>>]

\* A shape that was swept before: the disk, and with it a face in the
\* triangle representation, as sweep_shape makes it for a continuous edge.
MeshedDiskShape ==
    [CircleShape EXCEPT
        !.faces = Append(@, FaceTriangles(<<[points |-> <<<<5, 0, 0>>, <<0, 5, 0>>,
                                                       <<0, 5, 1>>>>,
                                          color |-> Red]>>))]

\* A cycle of two edges, the first a line segment with its two vertices, the
\* second a continuous edge.
MixedCycleShape ==
    LET a == <<0, 0, 0>>
        b == <<1, 0, 0>>
        H(k) == Handle("S", k)
    IN  [id |-> "S",
         points |-> <<a, b>>,
         vertices |-> <<Vertex(H(1)), Vertex(H(2))>>,
         curves |-> <<LineFromPoints(a, b), Circle(<<0, 0, 0>>, <<5, 0, 0>>)>>,
         edges |-> <<Edge(H(1), <<H(1), H(2)>>), Edge(H(2), <<>>)>>,
         cycles |-> <<Cycle(<<H(1), H(2)>>)>>,
         surfaces |-> <<x_y_plane>>,
         faces |-> <<FaceFace(H(1), <<H(1)>>, Red)>>]

\* The shapes a caller sets out to build.
Shapes ==
    {TriangleShape(<<0, 0, 0>>, <<1, 0, 0>>, <<0, 1, 0>>)}
    \cup {PolygonShape(n) : n \in 2..MaxN}
    \cup {TwoTriangles, CircleShape, SingleEdgeShape, MeshedDiskShape,
          MixedCycleShape, HoleShape}

\* Whether the store accepts every object of a shape at its insertion.
Accepted(s) ==
    /\ \A k \in 1..Len(s.vertices) : VertexValid(s, s.vertices[k])
    /\ \A k \in 1..Len(s.edges) : EdgeValid(s, s.edges[k])
    /\ \A k \in 1..Len(s.cycles) : CycleValid(s, s.cycles[k])
    /\ \A k \in 1..Len(s.faces) : FaceValid(s, s.faces[k])

\* The shapes sweep_shape can be handed: those the store lets a caller
\* build.  The cycle of MixedCycleShape is rejected at its insertion.
Sources == {s \in Shapes : Accepted(s)}

Paths == {<<0, 0, h>> : h \in 0..MaxH} \cup {<<1, 0, 1>>}

\* Whether a shape has a cycle that sweep_shape hands to approximate_cycle.
Approximated(s) == \E k \in 1..Len(s.cycles) : Len(s.cycles[k].edges) = 1

-----------------------------------------------------------------------------
(* algorithms::sweep: Relation *)

\* Relation::new
NewRelation == [vertices |-> <<>>, edges |-> <<>>, cycles |-> <<>>]

\* HashMap::insert: a later entry for the same key replaces the earlier one
Insert(map, k, v) == (k :> v) @@ map

\* Whether every handle of hs has an entry (the unwrap of get succeeds).
Known(map, hs) == \A k \in 1..Len(hs) : hs[k] \in DOMAIN map

\* An edge's vertices handed on as they are, not mapped.
vertices_unmapped(rel, e) == e.vertices

\* An edge's vertices mapped, but handed on in the opposite order.
vertices_reversed(rel, e) ==
    [k \in 1..Len(e.vertices) |->
        rel.vertices[e.vertices[Len(e.vertices) + 1 - k]]]

\* Relation::vertices_for_edge: None stays None, Some([a, b]) is mapped in
\* order.
vertices_for_edge(rel, e) ==
    [k \in 1..Len(e.vertices) |-> rel.vertices[e.vertices[k]]]

\* A cycle's edges mapped, but handed on in the opposite order.
edges_reversed(rel, c) ==
    [k \in 1..Len(c.edges) |-> rel.edges[c.edges[Len(c.edges) + 1 - k]]]

\* Relation::edges_for_cycle: the mapped edges, in the cycle's order
edges_for_cycle(rel, c) == [k \in 1..Len(c.edges) |-> rel.edges[c.edges[k]]]

\* Relation::cycles_for_face: the mapped cycles, in the face's order
cycles_for_face(rel, f) == [k \in 1..Len(f.cycles) |-> rel.cycles[f.cycles[k]]]

-----------------------------------------------------------------------------
(* algorithms::sweep: sweep_shape, one action per loop iteration *)

Phases == <<"vertices", "edges", "cycles", "faces", "sides", "done">>

\* The number of iterations of each loop of sweep_shape.
LoopLen(src, ph) ==
    CASE ph = "vertices" -> Len(src.vertices)
      [] ph = "edges" -> Len(src.edges)
      [] ph = "cycles" -> Len(src.cycles)
      [] ph = "faces" -> Len(src.faces)
      [] ph = "sides" -> Len(src.cycles)

NextPhase(ph) == Phases[(CHOOSE k \in 1..Len(Phases) : Phases[k] = ph) + 1]

\* Where sweep_shape is once iteration k of loop ph is asked for: a loop
\* that is over (or empty) falls through to the next one, and a cycle with
\* no edge at all has nothing to do in the side-face loop.
RECURSIVE At(_, _, _)
At(src, ph, k) ==
    IF ph = "done" THEN [pc |-> "done", i |-> 0]
    ELSE IF k > LoopLen(src, ph) THEN At(src, NextPhase(ph), 1)
    ELSE IF ph = "sides" /\ src.cycles[k].edges = <<>> THEN At(src, ph, k + 1)
    ELSE [pc |-> ph, i |-> k]

\* Move on to iteration k of loop ph.  Every iteration of the side-face loop
\* that takes the b-rep branch starts with a new, empty cache.
Goto(src, ph, k) ==
    /\ pc' = At(src, ph, k).pc
    /\ i' = At(src, ph, k).i
    /\ j' = 1
    /\ vertex_bottom_to_edge' = <<>>

\* A failure that is passed over: the loop goes on with its next iteration.
PanicSkipped(reason) ==
    /\ pc' = At(source, pc, i + 1).pc
    /\ i' = At(source, pc, i + 1).i
    /\ UNCHANGED <<target, source_to_bottom, source_to_top,
                   vertex_bottom_to_edge, j, err, side_faces, side_edges,
                   mesh_faces>>

\* A failed unwrap or an unreachable!(): sweep_shape returns nothing.
Panic(reason) ==
    /\ pc' = "panicked"
    /\ err' = reason
    /\ UNCHANGED <<target, source_to_bottom, source_to_top,
                   vertex_bottom_to_edge, i, j, side_faces, side_edges,
                   mesh_faces>>

\* "Create the new vertices."
SweepVertex ==
    /\ pc = "vertices"
    /\ LET vertex_source == Handle(source.id, i)
           point_bottom == add_point(target, VertexPoint(source, vertex_source))
           point_top ==
               add_point(point_bottom.shape,
                         VAdd(point_bottom.shape.points[point_bottom.handle.ix],
                              path))
           vertex_bottom == add_vertex(point_top.shape,
                                       Vertex(point_bottom.handle))
           vertex_top == add_vertex(vertex_bottom.shape,
                                    Vertex(point_top.handle))
       IN  IF vertex_bottom.ok /\ vertex_top.ok
           THEN /\ target' = vertex_top.shape
                /\ source_to_bottom' =
                       [source_to_bottom EXCEPT !.vertices =
                           Insert(@, vertex_source, vertex_bottom.handle)]
                /\ source_to_top' =
                       [source_to_top EXCEPT !.vertices =
                           Insert(@, vertex_source, vertex_top.handle)]
                /\ Goto(source, "vertices", i + 1)
                /\ UNCHANGED <<err, side_faces, side_edges, mesh_faces>>
           ELSE Panic("validation")
    /\ UNCHANGED <<source, path, tolerance, color, cmp, notSweep>>

\* "Create the new edges."
SweepEdge ==
    /\ pc = "edges"
    /\ LET edge_source == Handle(source.id, i)
           e == source.edges[i]
           curve_bottom == add_curve(target, EdgeCurve(source, edge_source))
           curve_top ==
               add_curve(curve_bottom.shape,
                         CurveTransform(
                             curve_bottom.shape.curves[curve_bottom.handle.ix],
                             Translation(path)))
       IN  IF ~(Known(source_to_bottom.vertices, e.vertices)
                /\ Known(source_to_top.vertices, e.vertices))
           THEN Panic("lookup")
           ELSE
             LET edge_bottom ==
                     add_edge(curve_top.shape,
                              Edge(curve_bottom.handle,
                                   vertices_for_edge(source_to_bottom, e)))
                 edge_top ==
                     add_edge(edge_bottom.shape,
                              Edge(curve_top.handle,
                                   vertices_for_edge(source_to_top, e)))
             IN  IF edge_bottom.ok /\ edge_top.ok
                 THEN /\ target' = edge_top.shape
                      /\ source_to_bottom' =
                             [source_to_bottom EXCEPT !.edges =
                                 Insert(@, edge_source, edge_bottom.handle)]
                      /\ source_to_top' =
                             [source_to_top EXCEPT !.edges =
                                 Insert(@, edge_source, edge_top.handle)]
                      /\ Goto(source, "edges", i + 1)
                      /\ UNCHANGED <<err, side_faces, side_edges, mesh_faces>>
                 ELSE Panic("validation")
    /\ UNCHANGED <<source, path, tolerance, color, cmp, notSweep>>

\* "Create the new cycles."
SweepCycle ==
    /\ pc = "cycles"
    /\ LET cycle_source == Handle(source.id, i)
           c == source.cycles[i]
       IN  IF ~(Known(source_to_bottom.edges, c.edges)
                /\ Known(source_to_top.edges, c.edges))
           THEN Panic("lookup")
           ELSE
             LET cycle_bottom ==
                     add_cycle(target,
                               Cycle(edges_for_cycle(source_to_bottom, c)))
                 cycle_top ==
                     add_cycle(cycle_bottom.shape,
                               Cycle(edges_for_cycle(source_to_top, c)))
             IN  IF cycle_bottom.ok /\ cycle_top.ok
                 THEN /\ target' = cycle_top.shape
                      /\ source_to_bottom' =
                             [source_to_bottom EXCEPT !.cycles =
                                 Insert(@, cycle_source, cycle_bottom.handle)]
                      /\ source_to_top' =
                             [source_to_top EXCEPT !.cycles =
                                 Insert(@, cycle_source, cycle_top.handle)]
                      /\ Goto(source, "cycles", i + 1)
                      /\ UNCHANGED <<err, side_faces, side_edges, mesh_faces>>
                 ELSE Panic("validation")
    /\ UNCHANGED <<source, path, tolerance, color, cmp, notSweep>>

\* A cap face that keeps the color of the source face.
CapColorOfSource(face_source, col) == face_source.color

\* The color of a cap face: the color handed to sweep_shape.
CapColor(face_source, col) == col

\* "Create top faces.": the bottom and the top face of every source face
SweepFace ==
    /\ pc = "faces"
    /\ LET face_source == source.faces[i]
       IN  IF face_source.kind # "Face"
           THEN Panic("unreachable")
           ELSE
             LET surface_bottom ==
                     add_surface(target,
                                 source.surfaces[face_source.surface.ix])
                 surface_top ==
                     add_surface(
                         surface_bottom.shape,
                         SurfaceTransform(
                             surface_bottom.shape.surfaces[surface_bottom.handle.ix],
                             Translation(path)))
             IN  IF ~(Known(source_to_bottom.cycles, face_source.cycles)
                      /\ Known(source_to_top.cycles, face_source.cycles))
                 THEN Panic("lookup")
                 ELSE
                   LET face_bottom ==
                           add_face(surface_top.shape,
                                    FaceFace(surface_bottom.handle,
                                             cycles_for_face(source_to_bottom,
                                                             face_source),
                                             CapColor(face_source, color)))
                       face_top ==
                           add_face(face_bottom.shape,
                                    FaceFace(surface_top.handle,
                                             cycles_for_face(source_to_top,
                                                             face_source),
                                             CapColor(face_source, color)))
                   IN  IF face_bottom.ok /\ face_top.ok
                       THEN /\ target' = face_top.shape
                            /\ Goto(source, "faces", i + 1)
                            /\ UNCHANGED <<source_to_bottom, source_to_top, err,
                                           side_faces, side_edges, mesh_faces>>
                       ELSE Panic("validation")
    /\ UNCHANGED <<source, path, tolerance, color, cmp, notSweep>>

\* Triangle<3> with its color (Triangle::set_color)
Triangle(points, col) == [points |-> points, color |-> col]

\* A quad whose translated points are taken in the order [v2, v3].
QuadUnswapped(v0, v1, p) ==
    <<v0, v1, TransformPoint(Translation(p), v0),
      TransformPoint(Translation(p), v1)>>

\* One window of the approximation and its translation: [v0, v1, v2, v3]
\* with [v3, v2] the translated [v0, v1].
Quad(v0, v1, p) ==
    LET moved == <<TransformPoint(Translation(p), v0),
                   TransformPoint(Translation(p), v1)>>
    IN  <<v0, v1, moved[2], moved[1]>>

\* approx.windows(2), each made a quad
Quads(approx, p) ==
    [k \in 1..(Len(approx) - 1) |-> Quad(approx[k], approx[k + 1], p)]

\* The two triangles of a quad, colored
QuadTriangles(q, col) ==
    <<Triangle(<<q[1], q[2], q[3]>>, col), Triangle(<<q[1], q[3], q[4]>>, col)>>

RECURSIVE SideTriangles(_, _, _)
SideTriangles(quads, col, k) ==
    IF k > Len(quads) THEN <<>>
    ELSE QuadTriangles(quads[k], col) \o SideTriangles(quads, col, k + 1)

\* The side face of a cycle with exactly one edge: the triangle
\* representation of the swept approximation of the cycle.
SweepSideMesh ==
    /\ pc = "sides"
    /\ Len(source.cycles[i].edges) = 1
    /\ LET approx == approximate_cycle(source, source.cycles[i], tolerance)
           side_face == SideTriangles(Quads(approx, path), color, 1)
           face == add_face(target, FaceTriangles(side_face))
       IN  IF face.ok
           THEN /\ target' = face.shape
                /\ mesh_faces' = Append(mesh_faces,
                                        [cycle |-> i, face |-> face.handle,
                                         k |-> Len(approx)])
                /\ Goto(source, "sides", i + 1)
                /\ UNCHANGED <<source_to_bottom, source_to_top, err,
                               side_faces, side_edges>>
           ELSE Panic("validation")
    /\ UNCHANGED <<source, path, tolerance, color, cmp, notSweep>>

\* A cache that never finds anything.
CacheMiss(cache, vertex_bottom) == FALSE

\* Whether the cache holds a side edge for this bottom vertex.
CacheHit(cache, vertex_bottom) == vertex_bottom \in DOMAIN cache

\* The closure that gives a source vertex its side edge: the cached one, or
\* a new edge from the bottom to the top vertex, on the source edge's curve.
\* st carries the target, the cache, the side edges found and created so
\* far, and the failure if there was one.
SideEdgeFor(st, curve_value, vertex_source) ==
    IF st.err # "none" THEN st
    ELSE IF vertex_source \notin DOMAIN source_to_bottom.vertices
    THEN [st EXCEPT !.err = "lookup"]
    ELSE
      LET vertex_bottom == source_to_bottom.vertices[vertex_source]
      IN  IF CacheHit(st.cache, vertex_bottom)
          THEN [st EXCEPT !.edges = Append(@, st.cache[vertex_bottom])]
          ELSE
            LET curve == add_curve(st.target, curve_value)
            IN  IF vertex_source \notin DOMAIN source_to_top.vertices
                THEN [st EXCEPT !.err = "lookup"]
                ELSE
                  LET vertex_top == source_to_top.vertices[vertex_source]
                      edge == add_edge(curve.shape,
                                       Edge(curve.handle,
                                            <<vertex_bottom, vertex_top>>))
                  IN  IF ~edge.ok
                      THEN [st EXCEPT !.err = "validation"]
                      ELSE [target |-> edge.shape,
                            cache |-> Insert(st.cache, vertex_bottom, edge.handle),
                            edges |-> Append(st.edges, edge.handle),
                            created |-> Append(st.created,
                                               [cycle |-> i,
                                                vertex |-> vertex_source,
                                                edge |-> edge.handle]),
                            err |-> "none"]

\* The edges of a side cycle, as sweep_shape lists them.
SideCycleEdges(bottom_edge, top_edge, side_edge_a, side_edge_b) ==
    <<bottom_edge, top_edge, side_edge_a, side_edge_b>>

\* The side face of one edge of a cycle that does not have exactly one edge.
SweepSideFace ==
    /\ pc = "sides"
    /\ Len(source.cycles[i].edges) # 1
    /\ LET edge_source == source.cycles[i].edges[j]
           e == source.edges[edge_source.ix]
       IN  IF e.vertices = <<>>
           THEN Panic("unwrap_none")
           ELSE
             LET st0 == [target |-> target, cache |-> vertex_bottom_to_edge,
                         edges |-> <<>>, created |-> <<>>, err |-> "none"]
                 st1 == SideEdgeFor(st0, EdgeCurve(source, edge_source),
                                    e.vertices[1])
                 st2 == SideEdgeFor(st1, EdgeCurve(source, edge_source),
                                    e.vertices[2])
             IN  IF st2.err # "none"
                 THEN Panic(st2.err)
                 ELSE IF ~(edge_source \in DOMAIN source_to_bottom.edges
                           /\ edge_source \in DOMAIN source_to_top.edges)
                 THEN Panic("lookup")
                 ELSE
                   LET bottom_edge == source_to_bottom.edges[edge_source]
                       top_edge == source_to_top.edges[edge_source]
                       surface ==
                           add_surface(st2.target,
                                       SweptCurve(EdgeCurve(st2.target, bottom_edge),
                                                  path))
                       cycle == add_cycle(surface.shape,
                                          Cycle(SideCycleEdges(
                                                    bottom_edge, top_edge,
                                                    st2.edges[1], st2.edges[2])))
                       face == add_face(cycle.shape,
                                        FaceFace(surface.handle,
                                                 <<cycle.handle>>, color))
                   IN  IF ~(cycle.ok /\ face.ok)
                       THEN Panic("validation")
                       ELSE
                         /\ target' = face.shape
                         /\ side_faces' =
                                Append(side_faces,
                                       [cycle |-> i, edge |-> j,
                                        face |-> face.handle,
                                        a |-> st2.edges[1], b |-> st2.edges[2]])
                         /\ side_edges' = side_edges \o st2.created
                         /\ IF j < Len(source.cycles[i].edges)
                            THEN /\ j' = j + 1
                                 /\ vertex_bottom_to_edge' = st2.cache
                                 /\ UNCHANGED <<pc, i>>
                            ELSE Goto(source, "sides", i + 1)
                         /\ UNCHANGED <<source_to_bottom, source_to_top, err,
                                        mesh_faces>>
    /\ UNCHANGED <<source, path, tolerance, color, cmp, notSweep>>

-----------------------------------------------------------------------------
(* topology::faces: equality and hashing of faces *)

\* The store a handle points into.
ShapeOf(h) == IF h.sh = source.id THEN source ELSE target

\* What a handle dereferences to, handles inside it followed in turn: two
\* handles are equal when these values are.
SurfaceValue(h) == ShapeOf(h).surfaces[h.ix]
CurveValue(h) == ShapeOf(h).curves[h.ix]
PointValue(h) == ShapeOf(h).points[h.ix]
VertexValue(h) == [point |-> PointValue(ShapeOf(h).vertices[h.ix].point)]
EdgeValue(h) ==
    LET e == ShapeOf(h).edges[h.ix]
    IN  [curve |-> CurveValue(e.curve),
         vertices |-> [k \in 1..Len(e.vertices) |-> VertexValue(e.vertices[k])]]
CycleValue(c) == [edges |-> [k \in 1..Len(c.edges) |-> EdgeValue(c.edges[k])]]

\* Face::surface: the surface behind the handle; <<>> stands for the
\* unreachable!() of the Triangles variant.
Face_surface(f) ==
    IF f.kind = "Face" THEN <<SurfaceValue(f.surface)>> ELSE <<>>

\* Face::cycles: the cycles behind the handles, in order
Face_cycles(f) ==
    IF f.kind = "Face"
    THEN <<[k \in 1..Len(f.cycles) |->
              CycleValue(ShapeOf(f.cycles[k]).cycles[f.cycles[k].ix])]>>
    ELSE <<>>

\* An equality that takes the color into account as well.
Face_eqWithColor(f, g) ==
    IF Face_surface(f) = <<>> \/ Face_surface(g) = <<>>
    THEN "panic"
    ELSE IF /\ Face_surface(f)[1] = Face_surface(g)[1]
            /\ Face_cycles(f)[1] = Face_cycles(g)[1]
            /\ f.color = g.color
    THEN "true"
    ELSE "false"

\* impl PartialEq for Face: "panic", or whether the surfaces are equal and
\* the cycles are, one by one
Face_eq(f, g) ==
    IF Face_surface(f) = <<>> \/ Face_surface(g) = <<>>
    THEN "panic"
    ELSE IF /\ Face_surface(f)[1] = Face_surface(g)[1]
            /\ Len(Face_cycles(f)[1]) = Len(Face_cycles(g)[1])
            /\ \A k \in 1..Len(Face_cycles(f)[1]) :
                  Face_cycles(f)[1][k] = Face_cycles(g)[1][k]
    THEN "true"
    ELSE "false"

\* impl Hash for Face: what is fed to the hasher, or "panic"
Face_hash(f) ==
    IF Face_surface(f) = <<>>
    THEN "panic"
    ELSE <<Face_surface(f)[1]>> \o Face_cycles(f)[1]

\* The faces of both shapes, each with the store it is in.
AllFaces ==
    {Handle(source.id, k) : k \in 1..Len(source.faces)}
    \cup {Handle(target.id, k) : k \in 1..Len(target.faces)}

FaceAt(h) == ShapeOf(h).faces[h.ix]

\* A caller compares and hashes two faces of the source and the swept shape
\* (as the sweep test does), once.
Compare ==
    /\ pc = "done"
    /\ cmp = <<>>
    /\ \E f \in AllFaces, g \in AllFaces :
          cmp' = <<[f |-> f, g |-> g,
                    eq |-> Face_eq(FaceAt(f), FaceAt(g)),
                    hash_f |-> Face_hash(FaceAt(f)),
                    hash_g |-> Face_hash(FaceAt(g))]>>
    /\ UNCHANGED <<source, path, tolerance, color, target, source_to_bottom,
                   source_to_top, vertex_bottom_to_edge, pc, i, j, err,
                   side_faces, side_edges, mesh_faces, notSweep>>

-----------------------------------------------------------------------------
(* The sweep of a source shape *)

SweepInit ==
    /\ source \in Sources
    /\ path \in Paths
    /\ tolerance \in 0..MaxTol
    /\ tolerance = 0 => ~Approximated(source)
    /\ color \in Colors
    /\ target = NewShape("T")
    /\ source_to_bottom = NewRelation
    /\ source_to_top = NewRelation
    /\ vertex_bottom_to_edge = <<>>
    /\ pc = At(source, "vertices", 1).pc
    /\ i = At(source, "vertices", 1).i
    /\ j = 1
    /\ err = "none"
    /\ side_faces = <<>>
    /\ side_edges = <<>>
    /\ mesh_faces = <<>>
    /\ cmp = <<>>

\* No sweep is running.
SweepIdle ==
    /\ source = NewShape("S")
    /\ path = <<0, 0, 0>>
    /\ tolerance = 0
    /\ color = Red
    /\ target = NewShape("T")
    /\ source_to_bottom = NewRelation
    /\ source_to_top = NewRelation
    /\ vertex_bottom_to_edge = <<>>
    /\ pc = "idle"
    /\ i = 0
    /\ j = 1
    /\ err = "none"
    /\ side_faces = <<>>
    /\ side_edges = <<>>
    /\ mesh_faces = <<>>
    /\ cmp = <<>>

SweepNext ==
    \/ SweepVertex
    \/ SweepEdge
    \/ SweepCycle
    \/ SweepFace
    \/ SweepSideMesh
    \/ SweepSideFace
    \/ Compare

-----------------------------------------------------------------------------
(* Callers of the shape store: insertions into two shapes A and B *)

\* A caller makes at most MaxInserts insertions.
MaxInserts == 2
\* The cycles a caller inserts have 1..MaxCycleLen edges.
MaxCycleLen == 2

ShapeIds == {"A", "B"}

\* The handles of one kind that the two stores have issued.
IssuedHandles(kind) ==
    UNION {{Handle(id, k) : k \in 1..Len(stores[id][kind])} : id \in ShapeIds}

VertexArgs == {Vertex(p) : p \in IssuedHandles("points")}
EdgeArgs ==
    {Edge(c, vs) : c \in IssuedHandles("curves"),
                   vs \in {<<>>} \cup
                          (IssuedHandles("vertices") \X IssuedHandles("vertices"))}
CycleArgs ==
    {Cycle(es) : es \in UNION {[1..n -> IssuedHandles("edges")] :
                               n \in 1..MaxCycleLen}}
FaceArgs ==
    {FaceFace(sf, <<c>>, Red) : sf \in IssuedHandles("surfaces"),
                                c \in IssuedHandles("cycles")}
    \cup {FaceTriangles(<<>>)}

\* The handles an object embeds.
Embedded(kind, x) ==
    CASE kind = "vertex" -> {x.point}
      [] kind = "edge" -> {x.curve} \cup {x.vertices[k] : k \in 1..Len(x.vertices)}
      [] kind = "cycle" -> {x.edges[k] : k \in 1..Len(x.edges)}
      [] kind = "face" ->
            IF x.kind = "Face"
            THEN {x.surface} \cup {x.cycles[k] : k \in 1..Len(x.cycles)}
            ELSE {}

\* The number of stored objects of every kind.
Counts(s) ==
    <<Len(s.points), Len(s.curves), Len(s.surfaces), Len(s.vertices),
      Len(s.edges), Len(s.cycles), Len(s.faces)>>

\* What is kept of one insertion into store id: whether the object embedded
\* a handle of the other store, the result, and the store as it was.
Inserted(id, kind, x, r) ==
    /\ stores' = [stores EXCEPT ![id] = r.shape]
    /\ last' = <<[into |-> id, kind |-> kind,
                  foreign |-> \E h \in Embedded(kind, x) : h.sh # id,
                  ok |-> r.ok, before |-> stores[id]]>>
    /\ inserts' = inserts + 1
    /\ UNCHANGED notStore

StoreAddVertex ==
    /\ inserts < MaxInserts
    /\ \E id \in ShapeIds, v \in VertexArgs :
          Inserted(id, "vertex", v, add_vertex(stores[id], v))

StoreAddEdge ==
    /\ inserts < MaxInserts
    /\ \E id \in ShapeIds, e \in EdgeArgs :
          Inserted(id, "edge", e, add_edge(stores[id], e))

StoreAddCycle ==
    /\ inserts < MaxInserts
    /\ \E id \in ShapeIds, c \in CycleArgs :
          Inserted(id, "cycle", c, add_cycle(stores[id], c))

StoreAddFace ==
    /\ inserts < MaxInserts
    /\ \E id \in ShapeIds, f \in FaceArgs :
          Inserted(id, "face", f, add_face(stores[id], f))

StoreInit ==
    /\ stores \in {[A |-> sa, B |-> sb] :
                     sa \in {NewShape("A"), SegmentShape("A")},
                     sb \in {NewShape("B"), SegmentShape("B")}}
    /\ last = <<>>
    /\ inserts = 0

StoreIdle ==
    /\ stores = [A |-> NewShape("A"), B |-> NewShape("B")]
    /\ last = <<>>
    /\ inserts = 0

StoreNext ==
    \/ StoreAddVertex
    \/ StoreAddEdge
    \/ StoreAddCycle
    \/ StoreAddFace

-----------------------------------------------------------------------------
(* geometry: the mappings between surface and model coordinates *)

\* Surface points (u, v) have -MaxCoord <= u, v <= MaxCoord.
MaxCoord == 4

\* A quotient of two integers, the denominator positive.
Rat(num, den) == [num |-> num, den |-> den]
\* Whether a quotient is the integer n.
RatIs(r, n) == r.num = n * r.den

\* Line::point_curve_to_model: origin + t * direction
point_curve_to_model(c, t) == VAdd(c.origin, VScale(c.direction, t))

\* Line::vector_curve_to_model: t * direction
vector_curve_to_model(c, t) == VScale(c.direction, t)

\* Line::point_model_to_curve: the projection of the point onto the line,
\* ((p - origin) . normalize(direction)) / |direction|
point_model_to_curve(c, p) ==
    Rat(Dot(VSub(p, c.origin), c.direction), Dot(c.direction, c.direction))

\* SweptCurve::point_model_to_surface: u is the curve parameter of the
\* point, v is ((p - origin) . normalize(path)) / |path|, which is
\* ((p - origin) . path) / (path . path).
point_model_to_surface(s, p) ==
    LET u == point_model_to_curve(s.curve, p)
        v == Rat(Dot(VSub(p, s.curve.origin), s.path), Dot(s.path, s.path))
    IN  <<u, v>>

\* SweptCurve::point_surface_to_model: curve(u) + path * v
point_surface_to_model(s, pt) ==
    VAdd(point_curve_to_model(s.curve, pt[1]), VScale(s.path, pt[2]))

\* A vector mapped as if it were a point: the curve's origin is added.
vector_as_point(s, v) ==
    VAdd(point_curve_to_model(s.curve, v[1]), VScale(s.path, v[2]))

\* SweptCurve::vector_surface_to_model: the curve's vector for u + path * v
vector_surface_to_model(s, v) ==
    VAdd(vector_curve_to_model(s.curve, v[1]), VScale(s.path, v[2]))

\* Transform::rotation by a quarter turn about the z axis and about the x
\* axis, followed by a translation
RotationZ(t) == [m |-> <<<<0, -1, 0>>, <<1, 0, 0>>, <<0, 0, 1>>>>, t |-> t]
RotationX(t) == [m |-> <<<<1, 0, 0>>, <<0, 0, -1>>, <<0, 1, 0>>>>, t |-> t]

\* The rigid transforms handed to Surface::transform: the translations
\* sweep_shape uses, and rotations with and without a translation.
RigidTransforms ==
    {Translation(<<0, 0, 1>>), Translation(<<1, 0, 1>>),
     RotationZ(<<0, 0, 0>>), RotationX(<<1, 2, 3>>)}

SurfOrigins == {<<0, 0, 0>>, <<1, 0, 0>>}
SurfDirections == {<<1, 0, 0>>, <<0, 2, 0>>, <<1, 1, 0>>}
SurfPaths == {<<0, 0, 1>>, <<0, 0, 2>>, <<0, 1, 0>>, <<1, 1, 0>>}

SurfaceInit ==
    /\ surf \in {SweptCurve(Line(o, d), p) :
                   o \in SurfOrigins, d \in SurfDirections, p \in SurfPaths}
    /\ surface_point \in (-MaxCoord..MaxCoord) \X (-MaxCoord..MaxCoord)
    /\ model_point = <<>>
    /\ back = <<>>
    /\ model_vector = <<>>
    /\ xform \in RigidTransforms
    /\ transformed = <<>>

SurfaceIdle ==
    /\ surf = x_y_plane
    /\ surface_point = <<0, 0>>
    /\ model_point = <<>>
    /\ back = <<>>
    /\ model_vector = <<>>
    /\ xform = Translation(<<0, 0, 0>>)
    /\ transformed = <<>>

\* A caller maps the surface point to model coordinates ...
ToModel ==
    /\ model_point = <<>>
    /\ model_point' = <<point_surface_to_model(surf, surface_point)>>
    /\ UNCHANGED <<surf, surface_point, back, model_vector, xform,
                   transformed,
                   notSurface>>

\* ... and the result back to surface coordinates.
ToSurface ==
    /\ model_point # <<>>
    /\ back = <<>>
    /\ back' = <<point_model_to_surface(surf, model_point[1])>>
    /\ UNCHANGED <<surf, surface_point, model_point, model_vector, xform,
                   transformed, notSurface>>

\* A caller maps the surface point as a vector to model coordinates.
VectorToModel ==
    /\ model_vector = <<>>
    /\ model_vector' = <<vector_surface_to_model(surf, surface_point)>>
    /\ UNCHANGED <<surf, surface_point, model_point, back, xform,
                   transformed,
                   notSurface>>

\* A caller transforms the surface, as sweep_shape does for a top face, and
\* maps the surface point on the result.  The surface is handed over by
\* value: the caller's own surface stays as it is.
TransformSurface ==
    /\ transformed = <<>>
    /\ LET result == SurfaceTransform(surf, xform)
       IN  transformed' =
               <<[of |-> surf,
                  surface |-> result,
                  point |-> point_surface_to_model(result, surface_point)]>>
    /\ UNCHANGED <<surf, surface_point, model_point, back, model_vector, xform,
                   notSurface>>

SurfaceNext ==
    \/ ToModel
    \/ ToSurface
    \/ VectorToModel
    \/ TransformSurface

-----------------------------------------------------------------------------
(* input: InputHandler *)

\* Cursor coordinates are 0..MaxPos.
MaxPos == 1
\* Angles stay within MaxAngle steps of 0 or of pi.
MaxAngle == 3

\* An angle is a whole number of steps of f = 0.005 radians, plus pi or
\* not: a cursor move changes an angle by one step per pixel, and the
\* clamp sets it to 0 or to pi.
Angle(steps, pis) == [steps |-> steps, pis |-> pis]
\* Angle::zero, Angle::pi
AngleZero == Angle(0, 0)
AnglePi == Angle(0, 1)
\* The number of whole steps in pi: pi / 0.005 = 628.3...
PiSteps == 628

\* angle < Angle::zero(), angle > Angle::pi()
BelowZero(a) == IF a.pis = 1 THEN a.steps < -PiSteps ELSE a.steps < 0
AbovePi(a) == IF a.pis = 1 THEN a.steps > 0 ELSE a.steps > PiSteps

\* An angle that is left as it is, wherever it is.
Unclamped(a) == a

\* The two ifs that keep angle_x between Angle::zero() and Angle::pi()
Clamped(a) ==
    LET low == IF BelowZero(a) THEN AngleZero ELSE a
    IN  IF AbovePi(low) THEN AnglePi ELSE low

\* angle.radians -= diff * f
Turned(a, diff) == [a EXCEPT !.steps = @ - diff]

Positions == (0..MaxPos) \X (0..MaxPos)
Buttons == {"Left", "Right", "Middle"}
ElementStates == {"Pressed", "Released"}

\* InputHandler::new, and the transform it is used with
InputInit ==
    /\ rotating = FALSE
    /\ cursor = <<>>
    /\ angle_x \in {AngleZero, AnglePi}
    /\ angle_z = AngleZero
    /\ last_left = "none"
    /\ event = <<>>

InputIdle ==
    /\ rotating = FALSE
    /\ cursor = <<>>
    /\ angle_x = AngleZero
    /\ angle_z = AngleZero
    /\ last_left = "none"
    /\ event = <<>>

\* What an event met: the handler's fields and the transform's angles.
Met(kind, arg) ==
    [kind |-> kind, arg |-> arg, rotating |-> rotating, cursor |-> cursor,
     angle_x |-> angle_x, angle_z |-> angle_z]

\* InputHandler::handle_cursor_moved
handle_cursor_moved(position) ==
    /\ IF cursor # <<>> /\ rotating
       THEN LET previous == cursor[1]
                diff_x == position[1] - previous[1]
                diff_y == position[2] - previous[2]
            IN  /\ angle_x' = Clamped(Turned(angle_x, diff_y))
                /\ angle_z' = Turned(angle_z, diff_x)
       ELSE UNCHANGED <<angle_x, angle_z>>
    /\ cursor' = <<position>>
    /\ UNCHANGED rotating

\* InputHandler::handle_mouse_input
handle_mouse_input(state, button) ==
    /\ rotating' = IF button = "Left" THEN state = "Pressed" ELSE rotating
    /\ UNCHANGED <<cursor, angle_x, angle_z>>

CursorMoved ==
    /\ \E position \in Positions :
           /\ handle_cursor_moved(position)
           /\ event' = <<Met("cursor", position)>>
    /\ angle_x'.steps \in -MaxAngle..MaxAngle
    /\ angle_z'.steps \in -MaxAngle..MaxAngle
    /\ UNCHANGED <<last_left, notInput>>

MouseInput ==
    /\ \E state \in ElementStates, button \in Buttons :
           /\ handle_mouse_input(state, button)
           /\ event' = <<Met("mouse", <<state, button>>)>>
           /\ last_left' = IF button = "Left" THEN state ELSE last_left
    /\ UNCHANGED notInput

InputNext ==
    \/ CursorMoved
    \/ MouseInput

-----------------------------------------------------------------------------
(* The specifications *)

Init == SweepInit /\ StoreIdle /\ SurfaceIdle /\ InputIdle
Next == SweepNext
\* A sweep of one of the source shapes, then one comparison of faces.
Spec == Init /\ [][Next]_vars

\* Callers inserting objects into two stores.
InitStore == SweepIdle /\ StoreInit /\ SurfaceIdle /\ InputIdle
SpecStore == InitStore /\ [][StoreNext]_vars

\* A surface point mapped to model coordinates and back.
InitSurface == SweepIdle /\ StoreIdle /\ SurfaceInit /\ InputIdle
SpecSurface == InitSurface /\ [][SurfaceNext]_vars

\* Mouse and cursor events handed to an InputHandler, in any order.
InitInput == SweepIdle /\ StoreIdle /\ SurfaceIdle /\ InputInit
SpecInput == InitInput /\ [][InputNext]_vars

-----------------------------------------------------------------------------
(* Properties *)

\* What a b-rep face is made of, handles followed: its surface and its
\* cycles in order, the color left out.
FaceValue(f) ==
    [surface |-> SurfaceValue(f.surface),
     cycles |-> [k \in 1..Len(f.cycles) |->
                   CycleValue(ShapeOf(f.cycles[k]).cycles[f.cycles[k].ix])]]

\* The same face moved by the vector v: every point and every curve's
\* origin is moved, directions and the surface's path are kept.
MovedCurve(c, v) == [c EXCEPT !.origin = VAdd(@, v)]
MovedEdge(e, v) ==
    [curve |-> MovedCurve(e.curve, v),
     vertices |-> [k \in 1..Len(e.vertices) |->
                     [point |-> VAdd(e.vertices[k].point, v)]]]
MovedFaceValue(fv, v) ==
    [surface |-> [curve |-> MovedCurve(fv.surface.curve, v),
                  path |-> fv.surface.path],
     cycles |-> [k \in 1..Len(fv.cycles) |->
                   [edges |-> [m \in 1..Len(fv.cycles[k].edges) |->
                                 MovedEdge(fv.cycles[k].edges[m], v)]]]]

TargetFaces == 1..Len(target.faces)
SourceCycles == 1..Len(source.cycles)

\* C1: the swept shape holds, for every b-rep face of the source, a face
\* with the same surface and the same cycles in the same order, and a
\* second face equal to the source face moved by the path.
C1_CapsPreserved ==
    pc = "done" =>
        \A k \in 1..Len(source.faces) :
            source.faces[k].kind = "Face" =>
                \E a \in TargetFaces, b \in TargetFaces :
                    /\ a # b
                    /\ target.faces[a].kind = "Face"
                    /\ target.faces[b].kind = "Face"
                    /\ Face_eq(target.faces[a], source.faces[k]) = "true"
                    /\ FaceValue(target.faces[a]) = FaceValue(source.faces[k])
                    /\ FaceValue(target.faces[b]) =
                           MovedFaceValue(FaceValue(source.faces[k]), path)

\* The sweep test: the triangle (0,0,0), (1,0,0), (0,1,0) swept by (0,0,1)
\* has returned.
C1_Witness ==
    /\ pc = "done"
    /\ source = TriangleShape(<<0, 0, 0>>, <<1, 0, 0>>, <<0, 1, 0>>)
    /\ path = <<0, 0, 1>>
    /\ Len(target.faces) = 5

\* The edges of source cycle c, and whether they all have vertices and
\* form a closed chain.
CycleEdges(c) ==
    [k \in 1..Len(source.cycles[c].edges) |->
        source.edges[source.cycles[c].edges[k].ix]]
Discrete(c) == \A k \in 1..Len(CycleEdges(c)) : CycleEdges(c)[k].vertices # <<>>
Closed(c) ==
    \A k \in 1..Len(CycleEdges(c)) :
        CycleEdges(c)[k].vertices[2] =
            CycleEdges(c)[(k % Len(CycleEdges(c))) + 1].vertices[1]
CycleVertices(c) ==
    UNION {{CycleEdges(c)[k].vertices[1], CycleEdges(c)[k].vertices[2]} :
             k \in 1..Len(CycleEdges(c))}

\* The side faces and the side edges the sweep made for source cycle c.
SideFacesOf(c) == {r \in 1..Len(side_faces) : side_faces[r].cycle = c}
SideEdgesOf(c) == {r \in 1..Len(side_edges) : side_edges[r].cycle = c}

\* The edges of the one cycle of side face r, as the target holds them.
SideCycle(r) ==
    target.cycles[target.faces[side_faces[r].face.ix].cycles[1].ix].edges

\* The side edge handles that the side faces of cycle c use at source
\* vertex v: the third edge of a face whose source edge starts at v, the
\* fourth of one whose source edge ends at v.
SideEdgesAt(c, v) ==
    {SideCycle(r)[3] : r \in {x \in SideFacesOf(c) :
        CycleEdges(c)[side_faces[x].edge].vertices[1] = v}}
    \cup
    {SideCycle(r)[4] : r \in {x \in SideFacesOf(c) :
        CycleEdges(c)[side_faces[x].edge].vertices[2] = v}}

\* C2: a closed polygon with n >= 2 discrete edges gets exactly n side
\* faces and at most n side edges; every vertex of it gets exactly one side
\* edge, and the side faces that meet at the vertex hold that one handle.
C2_SideEdgesSharedInCycle ==
    pc = "done" =>
        \A c \in SourceCycles :
            (Len(CycleEdges(c)) >= 2 /\ Discrete(c) /\ Closed(c)) =>
                /\ Cardinality(SideFacesOf(c)) = Len(CycleEdges(c))
                /\ \A r \in SideFacesOf(c) :
                      target.faces[side_faces[r].face.ix].kind = "Face"
                /\ Cardinality({side_edges[r].edge : r \in SideEdgesOf(c)})
                       <= Len(CycleEdges(c))
                /\ \A v \in CycleVertices(c) :
                      /\ Cardinality({r \in SideEdgesOf(c) :
                                        side_edges[r].vertex = v}) = 1
                      /\ Cardinality(SideEdgesAt(c, v)) = 1
                      /\ \A r \in SideEdgesOf(c) :
                            side_edges[r].vertex = v =>
                                SideEdgesAt(c, v) = {side_edges[r].edge}

\* A polygon with MaxN edges has been swept: MaxN side faces, MaxN side
\* edges.
C2_Witness ==
    /\ pc = "done"
    /\ source = PolygonShape(MaxN)
    /\ Len(side_faces) = MaxN
    /\ Len(side_edges) = MaxN

\* C3: no two side edges of one sweep connect the same bottom vertex to the
\* same top vertex: a source vertex gets one side edge, in however many
\* cycles it is.
C3_SideEdgesSharedAcrossCycles ==
    pc = "done" =>
        \A r1 \in 1..Len(side_edges), r2 \in 1..Len(side_edges) :
            (/\ side_edges[r1].vertex = side_edges[r2].vertex
             /\ target.edges[side_edges[r1].edge.ix].vertices =
                    target.edges[side_edges[r2].edge.ix].vertices)
            => side_edges[r1].edge = side_edges[r2].edge

\* The triangles of target face h.
Mesh(h) == target.faces[h.ix].triangles
MeshFacesOf(c) == {r \in 1..Len(mesh_faces) : mesh_faces[r].cycle = c}

\* C4: a cycle whose sole edge is continuous gets no b-rep side face and
\* exactly one Triangles face; for an approximation of k points it holds
\* 2 * (k - 1) triangles, (v0, v1, v2) and (v0, v2, v3) for every pair
\* v0, v1 of consecutive points, v3 and v2 being v0 and v1 moved by the
\* path.
C4_ContinuousFallback ==
    pc = "done" =>
        \A c \in SourceCycles :
            (Len(CycleEdges(c)) = 1 /\ ~Discrete(c)) =>
                LET approx == approximate_cycle(source, source.cycles[c],
                                                tolerance)
                    k == Len(approx)
                IN  /\ SideFacesOf(c) = {}
                    /\ Cardinality(MeshFacesOf(c)) = 1
                    /\ \A r \in MeshFacesOf(c) :
                          LET m == Mesh(mesh_faces[r].face)
                          IN  /\ target.faces[mesh_faces[r].face.ix].kind
                                     = "Triangles"
                              /\ Len(m) = 2 * (k - 1)
                              /\ \A n \in 1..(k - 1) :
                                    /\ m[2 * n - 1].points =
                                           <<approx[n], approx[n + 1],
                                             VAdd(approx[n + 1], path)>>
                                    /\ m[2 * n].points =
                                           <<approx[n], VAdd(approx[n + 1], path),
                                             VAdd(approx[n], path)>>

\* The disk has been swept with the fine tolerance: 13 points, 24
\* triangles.
C4_Witness ==
    /\ pc = "done"
    /\ source = CircleShape
    /\ tolerance = 1
    /\ Len(mesh_faces) = 1
    /\ Len(Mesh(mesh_faces[1].face)) = 24

\* C5: only a cycle of exactly one edge that is continuous gets a Triangles
\* face; a cycle with two or more edges, or with a single edge that has
\* vertices, gets b-rep side faces, one per edge.
C5_CaseSelection ==
    pc = "done" =>
        \A c \in SourceCycles :
            (Len(CycleEdges(c)) >= 2 \/ Discrete(c)) =>
                /\ MeshFacesOf(c) = {}
                /\ Cardinality(SideFacesOf(c)) = Len(CycleEdges(c))

\* C6: every face of the target carries the color handed to sweep_shape,
\* and so does every triangle of a Triangles face.
C6_UniformColor ==
    \A k \in TargetFaces :
        IF target.faces[k].kind = "Face"
        THEN target.faces[k].color = color
        ELSE \A n \in 1..Len(target.faces[k].triangles) :
                target.faces[k].triangles[n].color = color

\* A sweep with a color other than the source faces' has returned caps and
\* side faces.
C6_Witness ==
    /\ pc = "done"
    /\ Len(target.faces) > 2
    /\ \A k \in 1..Len(source.faces) : source.faces[k].color # color

\* C7: two b-rep faces are equal exactly when their surfaces are equal and
\* their cycles are, in order, whatever their colors; equal faces feed the
\* hasher the same input; a comparison or a hash with a Triangles face
\* panics.
C7_FaceIdentityIgnoresColor ==
    cmp # <<>> =>
        LET f == FaceAt(cmp[1].f)
            g == FaceAt(cmp[1].g)
        IN  /\ (f.kind = "Triangles" \/ g.kind = "Triangles")
                   <=> cmp[1].eq = "panic"
            /\ f.kind = "Triangles" <=> cmp[1].hash_f = "panic"
            /\ g.kind = "Triangles" <=> cmp[1].hash_g = "panic"
            /\ (f.kind = "Face" /\ g.kind = "Face") =>
                   /\ cmp[1].eq = "true" <=> FaceValue(f) = FaceValue(g)
                   /\ cmp[1].eq = "true" => cmp[1].hash_f = cmp[1].hash_g

\* Two faces of different colors have compared equal.
C7_Witness ==
    /\ cmp # <<>>
    /\ cmp[1].eq = "true"
    /\ FaceAt(cmp[1].f).color # FaceAt(cmp[1].g).color

\* C8: every handle stored in the target was issued by the target, none by
\* the source, and no insertion of the sweep is rejected.
C8_TargetIndependent ==
    /\ err # "validation"
    /\ \A k \in 1..Len(target.vertices) : VertexValid(target, target.vertices[k])
    /\ \A k \in 1..Len(target.edges) :
          /\ EdgeValid(target, target.edges[k])
          /\ \A h \in Embedded("edge", target.edges[k]) : h.sh # source.id
    /\ \A k \in 1..Len(target.cycles) :
          /\ CycleValid(target, target.cycles[k])
          /\ \A h \in Embedded("cycle", target.cycles[k]) : h.sh # source.id
    /\ \A k \in TargetFaces :
          /\ FaceValid(target, target.faces[k])
          /\ \A h \in Embedded("face", target.faces[k]) : h.sh # source.id

\* The two triangles have been swept: caps, side edges and side faces are
\* all in the target.
C8_Witness ==
    /\ pc = "done"
    /\ source = TwoTriangles
    /\ Len(target.faces) = 10
    /\ err = "none"

\* C9: an insertion of an object that embeds a handle of the other store is
\* rejected and leaves the store as it was, with as many objects of every
\* kind as before.
C9_HandleIsolation ==
    (last # <<>> /\ last[1].foreign) =>
        /\ ~last[1].ok
        /\ stores[last[1].into] = last[1].before
        /\ Counts(stores[last[1].into]) = Counts(last[1].before)

\* An edge with a vertex of the other store has been handed to a store.
C9_Witness ==
    /\ last # <<>>
    /\ last[1].foreign
    /\ last[1].kind = "edge"
    /\ Len(last[1].before.vertices) > 0

\* C10: a surface point mapped to model coordinates and back is the same
\* point, for every line direction and every non-zero path.
C10_SurfaceRoundTrip ==
    back # <<>> =>
        /\ RatIs(back[1][1], surface_point[1])
        /\ RatIs(back[1][2], surface_point[2])

\* C11: transforming a surface and then mapping a surface point gives the
\* transform of the point mapped on the original surface, for every rigid
\* transform; the surface handed to transform is left as it was (it still
\* is the value it was, and the result is a value of its own).
C11_TransformCommutes ==
    transformed # <<>> =>
        /\ transformed[1].point =
               TransformPoint(xform, point_surface_to_model(surf, surface_point))
        /\ transformed[1].surface.curve.origin =
               TransformPoint(xform, surf.curve.origin)
        /\ transformed[1].surface.curve.direction =
               TransformVector(xform, surf.curve.direction)
        /\ transformed[1].surface.path = TransformVector(xform, surf.path)
        /\ transformed[1].of = surf

\* A surface turned and moved, and a point off the curve mapped on it.
C11_Witness ==
    /\ transformed # <<>>
    /\ xform = RotationX(<<1, 2, 3>>)
    /\ surface_point[1] # 0
    /\ surface_point[2] # 0
    /\ transformed[1].surface # surf

\* The surface of the tests of swept.rs.
TestSurface == SweptCurve(Line(<<1, 0, 0>>, <<0, 2, 0>>), <<0, 0, 2>>)

\* origin + u * direction + v * path, coordinate by coordinate
SurfacePointAt(s, u, v) ==
    [k \in 1..3 |-> s.curve.origin[k] + u * s.curve.direction[k] + v * s.path[k]]
\* u * direction + v * path, coordinate by coordinate
SurfaceVectorAt(s, u, v) ==
    [k \in 1..3 |-> u * s.curve.direction[k] + v * s.path[k]]

\* C13: a surface point (u, v) maps to curve(u) + v * path and a surface
\* vector (u, v) to the curve's vector for u plus v * path; on the surface
\* of line origin (1,0,0), direction (0,2,0) and path (0,0,2), the point
\* (2,4) maps to (1,4,8) and the vector (2,4) to (0,4,8).
C13_SurfaceToModel ==
    /\ model_point # <<>> =>
           /\ model_point[1] =
                  SurfacePointAt(surf, surface_point[1], surface_point[2])
           /\ (surf = TestSurface /\ surface_point = <<2, 4>>) =>
                  model_point[1] = <<1, 4, 8>>
    /\ model_vector # <<>> =>
           /\ model_vector[1] =
                  SurfaceVectorAt(surf, surface_point[1], surface_point[2])
           /\ (surf = TestSurface /\ surface_point = <<2, 4>>) =>
                  model_vector[1] = <<0, 4, 8>>

\* The point and the vector of the tests, both mapped.
C13_Witness ==
    /\ surf = TestSurface
    /\ surface_point = <<2, 4>>
    /\ model_point = <<<<1, 4, 8>>>>
    /\ model_vector = <<<<0, 4, 8>>>>

\* Whether a handle of the source has its bottom and its top copy recorded.
Mapped(kind, k) ==
    /\ Handle(source.id, k) \in DOMAIN source_to_bottom[kind]
    /\ Handle(source.id, k) \in DOMAIN source_to_top[kind]

\* The number of entries of a sequence that satisfy Test.
Count(seq, Test(_)) == Cardinality({k \in 1..Len(seq) : Test(seq[k])})

\* Nothing of the source was passed over: every vertex, edge and cycle is
\* mapped, every face is a b-rep face and has its two caps, every cycle has
\* one side face per edge or its one Triangles face, and the target holds
\* exactly these objects.
NothingSkipped ==
    /\ \A k \in 1..Len(source.vertices) : Mapped("vertices", k)
    /\ \A k \in 1..Len(source.edges) : Mapped("edges", k)
    /\ \A k \in 1..Len(source.cycles) : Mapped("cycles", k)
    /\ \A k \in 1..Len(source.faces) : source.faces[k].kind = "Face"
    /\ \A c \in 1..Len(source.cycles) :
           LET IsOfCycle(r) == r.cycle = c
           IN  IF Len(source.cycles[c].edges) = 1
               THEN /\ Count(mesh_faces, IsOfCycle) = 1
                    /\ Count(side_faces, IsOfCycle) = 0
               ELSE /\ Count(mesh_faces, IsOfCycle) = 0
                    /\ Count(side_faces, IsOfCycle) = Len(source.cycles[c].edges)
    /\ Len(target.vertices) = 2 * Len(source.vertices)
    /\ Len(target.edges) = 2 * Len(source.edges) + Len(side_edges)
    /\ Len(target.cycles) = 2 * Len(source.cycles) + Len(side_faces)
    /\ Len(target.faces) =
           2 * Len(source.faces) + Len(side_faces) + Len(mesh_faces)

\* C12: sweep_shape never degrades silently.  It has panicked exactly when
\* a lookup, an unwrap or a match on the face variant failed, and then it
\* has returned no shape (no face of a result is ever compared); a source
\* with a Triangles face never gets to the return; and when sweep_shape
\* returns, nothing of the source was passed over.
C12_NeverDegradesSilently ==
    /\ (pc = "panicked") <=> (err # "none")
    /\ pc = "panicked" => cmp = <<>>
    /\ (\E k \in 1..Len(source.faces) : source.faces[k].kind = "Triangles") =>
           pc # "done"
    /\ pc = "done" => NothingSkipped

\* A source with a Triangles face after a b-rep face: the caps of the b-rep
\* face are in the target when sweep_shape panics.
C12_Witness ==
    /\ pc = "panicked"
    /\ err = "unreachable"
    /\ Len(target.faces) = 2

\* The point of a vertex of the target, and of a vertex of the source.
TargetPoint(v) == target.points[target.vertices[v.ix].point.ix]
SourcePoint(v) == source.points[source.vertices[v.ix].point.ix]

\* C14: every source edge has one bottom edge on a copy of its curve and
\* one top edge on its curve translated by the path; the copies of a
\* continuous edge have no vertices, the copies of any other edge have the
\* bottom and the top copies of its two vertices, in the edge's order, the
\* bottom copy of a vertex being at the vertex's point and the top copy at
\* that point plus the path.  Once the loop over the edges is over, every
\* source edge has its two copies.
C14_EdgeMapping ==
    /\ pc \in {"cycles", "faces", "sides", "done"} =>
           /\ \A k \in 1..Len(source.edges) : Mapped("edges", k)
           /\ Len(target.edges) - Len(side_edges) = 2 * Len(source.edges)
    /\ \A k \in 1..Len(source.edges) :
           Mapped("edges", k) =>
               LET h == Handle(source.id, k)
                   e == source.edges[k]
                   curve == source.curves[e.curve.ix]
                   bottom == target.edges[source_to_bottom.edges[h].ix]
                   top == target.edges[source_to_top.edges[h].ix]
               IN  /\ source_to_bottom.edges[h] # source_to_top.edges[h]
                   /\ target.curves[bottom.curve.ix] = curve
                   /\ target.curves[top.curve.ix] =
                          [curve EXCEPT !.origin = VAdd(@, path)]
                   /\ Len(bottom.vertices) = Len(e.vertices)
                   /\ Len(top.vertices) = Len(e.vertices)
                   /\ \A m \in 1..Len(e.vertices) :
                          /\ bottom.vertices[m] =
                                 source_to_bottom.vertices[e.vertices[m]]
                          /\ top.vertices[m] =
                                 source_to_top.vertices[e.vertices[m]]
                          /\ TargetPoint(bottom.vertices[m]) =
                                 SourcePoint(e.vertices[m])
                          /\ TargetPoint(top.vertices[m]) =
                                 VAdd(SourcePoint(e.vertices[m]), path)

\* The two triangles swept along a slanted path: every edge has two
\* different vertices and a top copy that is not its bottom copy.
C14_Witness ==
    /\ pc = "done"
    /\ source = TwoTriangles
    /\ path = <<1, 0, 1>>
    /\ \A k \in 1..Len(source.edges) : Mapped("edges", k)

\* The image of a sequence of source handles under one of the relations.
Image(map, hs) == [m \in 1..Len(hs) |-> map[hs[m]]]

\* C15: every source cycle has a bottom cycle whose edges are the bottom
\* copies of its edges and a top cycle whose edges are the top copies, as
\* many and in the same order; once the loop over the cycles is over every
\* source cycle has the two; and once the loop over the faces is over every
\* source face has a bottom and a top cap whose cycle lists are the bottom
\* and the top copies of its cycles, in the same order.
C15_CycleMapping ==
    /\ pc \in {"faces", "sides", "done"} =>
           \A k \in 1..Len(source.cycles) : Mapped("cycles", k)
    /\ \A k \in 1..Len(source.cycles) :
           Mapped("cycles", k) =>
               LET h == Handle(source.id, k)
                   c == source.cycles[k]
                   bottom == target.cycles[source_to_bottom.cycles[h].ix]
                   top == target.cycles[source_to_top.cycles[h].ix]
               IN  /\ source_to_bottom.cycles[h] # source_to_top.cycles[h]
                   /\ bottom.edges = Image(source_to_bottom.edges, c.edges)
                   /\ top.edges = Image(source_to_top.edges, c.edges)
    /\ pc \in {"sides", "done"} =>
           \A k \in 1..Len(source.faces) :
               LET f == source.faces[k]
                   bottom == target.faces[2 * k - 1]
                   top == target.faces[2 * k]
               IN  /\ bottom.kind = "Face"
                   /\ top.kind = "Face"
                   /\ bottom.cycles = Image(source_to_bottom.cycles, f.cycles)
                   /\ top.cycles = Image(source_to_top.cycles, f.cycles)

\* The triangle with a hole swept: a face of two cycles of three edges.
C15_Witness ==
    /\ pc = "done"
    /\ source = HoleShape
    /\ Len(target.faces[1].cycles) = 2
    /\ Len(target.cycles[target.faces[2].cycles[2].ix].edges) = 3

\* The side faces of source cycle c, in the order of their insertion.
SideFacesInOrder(c) ==
    LET IsOfCycle(r) == r.cycle = c
    IN  SelectSeq(side_faces, IsOfCycle)

\* Whether source cycle c is of the general case: it has two edges or
\* more, or a single edge that is not continuous.
GeneralCase(c) ==
    \/ Len(source.cycles[c].edges) >= 2
    \/ /\ Len(source.cycles[c].edges) = 1
       /\ source.edges[source.cycles[c].edges[1].ix].vertices # <<>>

\* C16: for a cycle of the general case (two edges or more, or a single
\* edge that is not continuous),
\* every edge gets, in the cycle's order, exactly one side face; the face's
\* surface is the SweptCurve of the bottom edge's curve and the path; its
\* cycle list holds one cycle, made for this face, with the edges [bottom
\* edge, top edge, side edge a, side edge b]; side edge a runs from the
\* bottom to the top copy of the edge's first vertex and side edge b from
\* the bottom to the top copy of its second vertex.
C16_SideFaceStructure ==
    /\ \A n \in 1..Len(side_faces) :
           LET r == side_faces[n]
               edge_source == source.cycles[r.cycle].edges[r.edge]
               e == source.edges[edge_source.ix]
               bottom_edge == source_to_bottom.edges[edge_source]
               top_edge == source_to_top.edges[edge_source]
               face == target.faces[r.face.ix]
               cycle == target.cycles[face.cycles[1].ix]
               SideEdge(m) == target.edges[cycle.edges[m].ix]
           IN  /\ Len(source.cycles[r.cycle].edges) # 1
               /\ face.kind = "Face"
               /\ target.surfaces[face.surface.ix] =
                      [curve |-> target.curves[target.edges[bottom_edge.ix].curve.ix],
                       path |-> path]
               /\ Len(face.cycles) = 1
               /\ face.cycles[1].ix > 2 * Len(source.cycles)
               /\ \A m \in 1..Len(side_faces) :
                      m # n =>
                          target.faces[side_faces[m].face.ix].cycles[1]
                              # face.cycles[1]
               /\ Len(cycle.edges) = 4
               /\ cycle.edges[1] = bottom_edge
               /\ cycle.edges[2] = top_edge
               /\ SideEdge(3).vertices =
                      <<source_to_bottom.vertices[e.vertices[1]],
                        source_to_top.vertices[e.vertices[1]]>>
               /\ SideEdge(4).vertices =
                      <<source_to_bottom.vertices[e.vertices[2]],
                        source_to_top.vertices[e.vertices[2]]>>
    /\ pc = "done" =>
           \A c \in 1..Len(source.cycles) :
               GeneralCase(c) =>
                   /\ Len(SideFacesInOrder(c)) = Len(source.cycles[c].edges)
                   /\ \A k \in 1..Len(SideFacesInOrder(c)) :
                          /\ SideFacesInOrder(c)[k].edge = k
                          /\ k > 1 =>
                                 SideFacesInOrder(c)[k].face.ix
                                     > SideFacesInOrder(c)[k - 1].face.ix

\* Whether the store accepts every object of the source.
SourceAccepted == Accepted(source)

\* C17: for every source the store accepts, when sweep_shape is in the
\* branch for a cycle whose edge count is not 1, every edge of that cycle
\* has vertices and it and its vertices are in both relations, and the
\* unwrap of an edge's vertices never fails.
C17_GeneralBranchCannotPanic ==
    SourceAccepted =>
        /\ err # "unwrap_none"
        /\ (pc = "sides" /\ Len(source.cycles[i].edges) # 1) =>
               \A k \in 1..Len(source.cycles[i].edges) :
                   LET edge_source == source.cycles[i].edges[k]
                       e == source.edges[edge_source.ix]
                   IN  /\ e.vertices # <<>>
                       /\ Mapped("edges", edge_source.ix)
                       /\ \A m \in 1..Len(e.vertices) :
                              Mapped("vertices", e.vertices[m].ix)

\* sweep_shape in the branch for a cycle of several edges, the unwrap and
\* the lookups for the first edge behind it.
C17_Witness ==
    /\ SourceAccepted
    /\ pc = "sides"
    /\ Len(source.cycles[i].edges) > 1
    /\ j = 2
    /\ side_faces # <<>>
    /\ err = "none"

\* The cross product of two vectors.
Cross(a, b) ==
    <<a[2] * b[3] - a[3] * b[2], a[3] * b[1] - a[1] * b[3],
      a[1] * b[2] - a[2] * b[1]>>

\* Whether a point is a point of a curve: on a line, the point's offset from
\* the origin is parallel to the direction; on a circle, it is as far from
\* the center as the radius is long.
OnCurve(c, p) ==
    IF c.kind = "Line"
    THEN Cross(VSub(p, c.origin), c.direction) = <<0, 0, 0>>
    ELSE Dot(VSub(p, c.origin), VSub(p, c.origin)) = Dot(c.direction, c.direction)

\* C18: in the target, every edge that has vertices lies on its own curve:
\* the points of both of its vertices are points of the edge's curve; so
\* the curve of a side edge passes through the bottom and through the top
\* copy of its vertex.
C18_EdgesLieOnTheirCurve ==
    \A k \in 1..Len(target.edges) :
        \A m \in 1..Len(target.edges[k].vertices) :
            OnCurve(target.curves[target.edges[k].curve.ix],
                    TargetPoint(target.edges[k].vertices[m]))

\* Whether an angle lies in [0, pi].
InRange(a) ==
    \/ a.pis = 0 /\ a.steps >= 0 /\ a.steps <= PiSteps
    \/ a.pis = 1 /\ a.steps <= 0 /\ a.steps >= -PiSteps

\* C19: rotating is true exactly when the last left-button event was
\* Pressed, and an event of another button leaves it as it was; a cursor
\* event records its position, changes an angle only if rotating was true
\* and a cursor position was recorded before, and then turns angle_z by the
\* horizontal and angle_x by the vertical distance, angle_x ending in
\* [0, pi]; a mouse event changes neither the angles nor the cursor.
C19_RotationGating ==
    /\ rotating <=> (last_left = "Pressed")
    /\ event # <<>> =>
           LET ev == event[1]
               rotates == ev.rotating /\ ev.cursor # <<>>
           IN  IF ev.kind = "cursor"
               THEN /\ cursor = <<ev.arg>>
                    /\ rotating = ev.rotating
                    /\ ~rotates => angle_x = ev.angle_x /\ angle_z = ev.angle_z
                    /\ rotates =>
                           /\ InRange(angle_x)
                           /\ angle_z.pis = ev.angle_z.pis
                           /\ angle_z.steps =
                                  ev.angle_z.steps - (ev.arg[1] - ev.cursor[1][1])
                           /\ InRange(Turned(ev.angle_x,
                                              ev.arg[2] - ev.cursor[1][2])) =>
                                  angle_x = Turned(ev.angle_x,
                                                   ev.arg[2] - ev.cursor[1][2])
               ELSE /\ ev.arg[2] # "Left" => rotating = ev.rotating
                    /\ ev.arg[2] = "Left" => (rotating <=> ev.arg[1] = "Pressed")
                    /\ cursor = ev.cursor
                    /\ angle_x = ev.angle_x
                    /\ angle_z = ev.angle_z

\* A rotating move that would have taken angle_x below 0 and was clamped.
C19_Witness ==
    /\ event # <<>>
    /\ event[1].kind = "cursor"
    /\ event[1].rotating
    /\ event[1].cursor # <<>>
    /\ event[1].angle_x = AngleZero
    /\ event[1].arg[2] > event[1].cursor[1][2]
    /\ event[1].arg[1] # event[1].cursor[1][1]
    /\ angle_x = AngleZero

====
